---- MODULE Spec2Model ----
(***************************************************************************)
(* Model of the Watcher of src/src/middleware/watcher.ts: the cached       *)
(* course catalog, the watchers table, and the asynchronous operations     *)
(* init, scan, register, purge and watch.                                  *)
(*                                                                         *)
(* One action is one run-to-completion step of the JavaScript event loop   *)
(* (the code between two suspension points), or one statement executed by  *)
(* the database.  HTTP responses, database statements and cron ticks       *)
(* arrive in any order.                                                    *)
(***************************************************************************)
EXTENDS Integers, Sequences, FiniteSets, TLC

\* ------------------------------------------------------------------ bounds
\* The calls made to the watcher in one run: init, register, purge and the
\* ticks of the cron job.
MaxCalls == 3

\* ------------------------------------------------------------------ inputs
Emails == {"a", "b"}
CRNs == {0, 1, 2}

\* purge's optional crn parameter, when omitted
Undefined == -1

Section(sec, crn, cap, rem) == [sec |-> sec, crn |-> crn, cap |-> cap, rem |-> rem]

\* Two releases of the catalog.  CRN 1 is full in the first and open in the
\* second; CRN 2 is open in both, and two section records of the second
\* carry it; CRN 0 is in neither.
CatalogA ==
    << [code |-> "CSCI",
        courses |-> << [title |-> "DS",
                        sections |-> << Section("01", 1, 2, 0),
                                        Section("02", 2, 2, 1) >>] >>] >>

CatalogB ==
    << [code |-> "CSCI",
        courses |-> << [title |-> "DS",
                        sections |-> << Section("01", 1, 2, 2) >>] >>],
       [code |-> "MATH",
        courses |-> << [title |-> "Calc",
                        sections |-> << Section("01", 2, 3, 1),
                                        Section("02", 2, 3, 3) >>] >>] >>

Catalogs == {CatalogA, CatalogB}

\* The watchers table: one row per CRN at most, <<>> for no row and
\* <<emails>> for a row.
NoRow == <<>>
Row(emails) == <<emails>>
HasRow(table, crn) == table[crn] # NoRow
EmailsOf(table, crn) == table[crn][1]

\* When the process starts the table is empty, or holds what earlier runs
\* left: rows for CRN 0, a section of an earlier catalog, and for CRN 1; or
\* a row for CRN 2.
TableEmpty == [c \in CRNs |-> NoRow]
TableKept ==
    [c \in CRNs |-> CASE c = 0 -> Row(<<"a">>)
                       [] c = 1 -> Row(<<"a", "b">>)
                       [] OTHER -> NoRow]
TableOpen ==
    [c \in CRNs |-> IF c = 2 THEN Row(<<"a", "b">>) ELSE NoRow]

InitialTables == {TableEmpty, TableKept, TableOpen}

VARIABLES
    store,        \* the watchers table: CRN -> NoRow or Row(emails)
    courseData,   \* this.courseData: <<>> when undefined, <<catalog>> when set
    initialized,  \* this.initialized
    watching,     \* the number of cron jobs scheduled by watch()
    inits,        \* the init() calls
    scans,        \* the scan() executions
    regs,         \* the register() calls
    purges,       \* the purge() calls
    mails,        \* the sendMail calls of the latest loop of a scan, in order
    calls,        \* the calls that loop made, sendMail and delete, in order
    notified      \* history: the CRNs a finished scan has sent a mail for,
                  \* with no register committed for them since

vars == <<store, courseData, initialized, watching, inits, scans, regs, purges,
          mails, calls, notified>>

\* ------------------------------------------------------- pure functions

\* Array.prototype.join(', '): the elements with the separator between them;
\* the empty array gives the empty string.
RECURSIVE Join(_)
Join(emails) ==
    IF emails = <<>> THEN <<>>
    ELSE IF Len(emails) = 1 THEN <<Head(emails)>>
    ELSE <<Head(emails), ", ">> \o Join(Tail(emails))

\* ARRAY_REMOVE(emails, email): every element equal to email is removed.
RECURSIVE ArrayRemove(_, _)
ArrayRemove(emails, email) ==
    IF emails = <<>> THEN <<>>
    ELSE IF Head(emails) = email THEN ArrayRemove(Tail(emails), email)
    ELSE <<Head(emails)>> \o ArrayRemove(Tail(emails), email)

\* watchers.emails || EXCLUDED.emails: array concatenation.
ArrayCat(emails, excluded) == emails \o excluded

\* insert ... onConflict('crn').merge(...)
Upsert(table, crn, email) ==
    [table EXCEPT ![crn] = IF HasRow(table, crn)
                           THEN Row(ArrayCat(EmailsOf(table, crn), <<email>>))
                           ELSE Row(<<email>>)]

\* Mutant: the where clause is added whatever crn is.
Truthy_Always(crn) == TRUE

\* `if (crn)`: the where clause is added for a truthy crn only.
Truthy(crn) == crn # Undefined /\ crn # 0

\* Mutant: a row left with no email is deleted.
PurgeUpdate_DropsEmpty(table, email, crn) ==
    [c \in CRNs |->
        IF HasRow(table, c) /\ (Truthy(crn) => c = crn)
        THEN IF ArrayRemove(EmailsOf(table, c), email) = <<>> THEN NoRow
             ELSE Row(ArrayRemove(EmailsOf(table, c), email))
        ELSE table[c]]

\* update watchers set emails = ARRAY_REMOVE(emails, ?) [where crn = ?]
PurgeUpdate(table, email, crn) ==
    [c \in CRNs |->
        IF HasRow(table, c) /\ (Truthy(crn) => c = crn)
        THEN Row(ArrayRemove(EmailsOf(table, c), email))
        ELSE table[c]]

\* delete from watchers where crn = ?
DeleteRow(table, crn) == [table EXCEPT ![crn] = NoRow]

\* Mutant: a course with a section counts as a match.
FoundInSections_AnySection(sections, crn) == sections # <<>>

\* register's search of the catalog, with its early exits.
RECURSIVE FoundInSections(_, _)
FoundInSections(sections, crn) ==
    IF sections = <<>> THEN FALSE
    ELSE IF Head(sections).crn = crn THEN TRUE
    ELSE FoundInSections(Tail(sections), crn)

RECURSIVE FoundInCourses(_, _)
FoundInCourses(courses, crn) ==
    IF courses = <<>> THEN FALSE
    ELSE IF FoundInSections(Head(courses).sections, crn) THEN TRUE
    ELSE FoundInCourses(Tail(courses), crn)

RECURSIVE FoundInDepartments(_, _)
FoundInDepartments(departments, crn) ==
    IF departments = <<>> THEN FALSE
    ELSE IF FoundInCourses(Head(departments).courses, crn) THEN TRUE
    ELSE FoundInDepartments(Tail(departments), crn)

\* The Map built from the rows the select returned.
Listeners(rows) == [c \in {d \in CRNs : HasRow(rows, d)} |-> EmailsOf(rows, c)]

\* What scan hands to sendMail for one matched section.
Message(course, section, listeners) ==
    [crn |-> section.crn,
     to |-> Join(listeners[section.crn]),
     subject |-> <<"Course [", course.title, "] section [", section.sec,
                   "] has a seat available!">>,
     text |-> <<section.rem, "/", section.cap, " seats available">>]

\* Mutant: a section with a row is matched whatever its remaining seats.
RECURSIVE MatchSections_IgnoreRem(_, _, _)
MatchSections_IgnoreRem(course, sections, listeners) ==
    IF sections = <<>> THEN <<>>
    ELSE LET section == Head(sections)
             rest == MatchSections_IgnoreRem(course, Tail(sections), listeners)
         IN IF section.crn \in DOMAIN listeners
            THEN <<Message(course, section, listeners)>> \o rest
            ELSE rest

\* scan's three nested loops: the matched sections in traversal order.
RECURSIVE MatchSections(_, _, _)
MatchSections(course, sections, listeners) ==
    IF sections = <<>> THEN <<>>
    ELSE LET section == Head(sections)
             rest == MatchSections(course, Tail(sections), listeners)
         IN IF section.crn \in DOMAIN listeners /\ section.rem > 0
            THEN <<Message(course, section, listeners)>> \o rest
            ELSE rest

RECURSIVE MatchCourses(_, _)
MatchCourses(courses, listeners) ==
    IF courses = <<>> THEN <<>>
    ELSE MatchSections(Head(courses), Head(courses).sections, listeners)
         \o MatchCourses(Tail(courses), listeners)

RECURSIVE MatchDepartments(_, _)
MatchDepartments(departments, listeners) ==
    IF departments = <<>> THEN <<>>
    ELSE MatchCourses(Head(departments).courses, listeners)
         \o MatchDepartments(Tail(departments), listeners)

\* The calls of the loop body for n matches, in the order of the statements:
\* transporter.sendMail(...), then db('watchers').delete().
LoopCalls(matches, n) ==
    [j \in 1..(2 * n) |->
        IF j % 2 = 1 THEN <<"sendMail", matches[(j + 1) \div 2].crn>>
        ELSE <<"delete", matches[j \div 2].crn>>]

\* Mutant: a failed send ends the loop before its delete.
MatchEffects_AbortOnSendFailure(k, matches, oks) ==
    LET failed == {i \in 1..Len(matches) : ~oks[i]}
        last == IF failed = {} THEN Len(matches)
                ELSE CHOOSE i \in failed : \A j \in failed : i <= j
    IN [mails |-> [i \in 1..last |->
                     [scan |-> k, crn |-> matches[i].crn, to |-> matches[i].to,
                      subject |-> matches[i].subject, text |-> matches[i].text,
                      ok |-> oks[i]]],
        dels |-> [i \in 1..(IF failed = {} THEN last ELSE last - 1) |->
                     matches[i].crn],
        calls |-> SubSeq(LoopCalls(matches, last), 1,
                         IF failed = {} THEN 2 * last ELSE 2 * last - 1)]

\* Mutant: the delete is issued before the mail is handed to the transporter.
MatchEffects_DeleteThenSend(k, matches, oks) ==
    [mails |-> [i \in 1..Len(matches) |->
                  [scan |-> k, crn |-> matches[i].crn, to |-> matches[i].to,
                   subject |-> matches[i].subject, text |-> matches[i].text,
                   ok |-> oks[i]]],
     dels |-> [i \in 1..Len(matches) |-> matches[i].crn],
     calls |-> [j \in 1..(2 * Len(matches)) |->
                  IF j % 2 = 1 THEN <<"delete", matches[(j + 1) \div 2].crn>>
                  ELSE <<"sendMail", matches[j \div 2].crn>>]]

\* For every match: sendMail (its outcome oks[i] reaches only the logging
\* callback) and an unawaited delete of the row.
MatchEffects(k, matches, oks) ==
    [mails |-> [i \in 1..Len(matches) |->
                  [scan |-> k, crn |-> matches[i].crn, to |-> matches[i].to,
                   subject |-> matches[i].subject, text |-> matches[i].text,
                   ok |-> oks[i]]],
     dels |-> [i \in 1..Len(matches) |-> matches[i].crn],
     calls |-> LoopCalls(matches, Len(matches))]

\* Mutant: the cached array is overwritten department by department, and
\* the step ends after the first.
CacheSnapshot_InPlace(old, departments) ==
    IF old = <<>> \/ old[1] = <<>> \/ departments = <<>> THEN <<departments>>
    ELSE << <<departments[1]>> \o Tail(old[1]) >>

\* this.courseData = departments
CacheSnapshot(old, departments) == <<departments>>

\* Mutant: init does not look at the flag.
ShouldInit_Always == TRUE

\* if (!this.initialized)
ShouldInit == ~initialized

\* ------------------------------------------------------------ operations

Init ==
    /\ store \in InitialTables
    /\ courseData = <<>>
    /\ initialized = FALSE
    /\ watching = 0
    /\ inits = <<>>
    /\ scans = <<>>
    /\ regs = <<>>
    /\ purges = <<>>
    /\ mails = <<>>
    /\ calls = <<>>
    /\ notified = {}

\* The module calls init() as it loads, before it hands the watcher out.
Loaded == Len(inits) > 0

Ticks == Cardinality({k \in DOMAIN scans : scans[k].origin = "cron"})
Calls == Len(inits) + Len(regs) + Len(purges) + Ticks

InFlight(k) == scans[k].pc \in {"fetching", "rows"}

\* The synchronous head of scan(): the select and the first request are
\* issued.  A scan record holds the locals of the execution while it runs:
\* rows, the result of the select once the database has executed it; data,
\* the departments fetched; dels, the deletes issued and not yet executed.
StartScan(origin) ==
    Append(scans, [pc |-> "fetching", origin |-> origin, rows |-> <<>>,
                   data |-> <<>>, dels |-> <<>>, after |-> notified])

\* register's search and what follows it, up to its await of the insert.
Lookup(reg, cached) ==
    [reg EXCEPT !.view = cached,
                !.pc = IF FoundInDepartments(cached[1], reg.crn)
                       THEN "inserting" ELSE "notfound"]

\* The callers awaiting scan k go on when its promise settles: init goes
\* on to watch(), register to its search; a rejection rejects them.
SettleInits(k, ok) ==
    [i \in DOMAIN inits |->
        IF inits[i].pc = "scanning" /\ inits[i].scan = k
        THEN [inits[i] EXCEPT !.pc = IF ok THEN "done" ELSE "failed"]
        ELSE inits[i]]

\* watch(): one more cron job, when init goes on after its scan.
Watched(k, ok) ==
    IF ok /\ \E i \in DOMAIN inits : inits[i].pc = "scanning" /\ inits[i].scan = k
    THEN watching + 1 ELSE watching

SettleRegs(k, ok) ==
    [r \in DOMAIN regs |->
        IF regs[r].pc = "scanning" /\ regs[r].scan = k
        THEN IF ok THEN Lookup(regs[r], courseData)
             ELSE [regs[r] EXCEPT !.pc = "failed"]
        ELSE regs[r]]

InitCall ==
    /\ Calls < MaxCalls
    /\ IF ShouldInit
       THEN /\ initialized' = TRUE
            /\ scans' = StartScan("init")
            /\ inits' = Append(inits, [pc |-> "scanning", scan |-> Len(scans) + 1])
       ELSE /\ inits' = Append(inits, [pc |-> "done", scan |-> 0])
            /\ UNCHANGED <<initialized, scans>>
    /\ UNCHANGED <<store, courseData, watching, regs, purges, mails, calls, notified>>

\* Mutant: the job fires once, not on every half hour.
CronTick_Once ==
    /\ watching > 0
    /\ Ticks = 0
    /\ Calls < MaxCalls
    /\ scans' = StartScan("cron")
    /\ UNCHANGED <<store, courseData, initialized, watching, inits, regs, purges,
                   mails, calls, notified>>

\* A tick of a cron job: void this.scan()
CronTick ==
    /\ watching > 0
    /\ Calls < MaxCalls
    /\ scans' = StartScan("cron")
    /\ UNCHANGED <<store, courseData, initialized, watching, inits, regs, purges,
                   mails, calls, notified>>

\* Mutant: a failed fetch drops the cached catalog.
FetchFail_DropsCache(k) ==
    /\ scans[k].pc = "fetching"
    /\ scans' = [scans EXCEPT ![k].pc = "failed", ![k].rows = <<>>, ![k].after = {}]
    /\ inits' = SettleInits(k, FALSE)
    /\ regs' = SettleRegs(k, FALSE)
    /\ watching' = Watched(k, FALSE)
    /\ courseData' = <<>>
    /\ UNCHANGED <<store, initialized, purges, mails, calls, notified>>

\* The listing of the releases or the data file of the last release cannot
\* be had: the promise of scan k rejects.
FetchFail(k) ==
    /\ scans[k].pc = "fetching"
    /\ scans' = [scans EXCEPT ![k].pc = "failed", ![k].rows = <<>>, ![k].after = {}]
    /\ inits' = SettleInits(k, FALSE)
    /\ regs' = SettleRegs(k, FALSE)
    /\ watching' = Watched(k, FALSE)
    /\ UNCHANGED <<store, courseData, initialized, purges, mails, calls, notified>>

\* The listing and then the data file of its last release arrive: the
\* catalog is cached and scan awaits the rows.
FetchData(k, departments) ==
    /\ scans[k].pc = "fetching"
    /\ courseData' = CacheSnapshot(courseData, departments)
    /\ scans' = [scans EXCEPT ![k].pc = "rows", ![k].data = <<departments>>]
    /\ UNCHANGED <<store, initialized, watching, inits, regs, purges, mails, calls,
                   notified>>

\* The database executes the select of scan k, at some moment between the
\* start of the scan and the loop over its result.
DbSelect(k) ==
    /\ InFlight(k)
    /\ scans[k].rows = <<>>
    /\ scans' = [scans EXCEPT ![k].rows = <<store>>]
    /\ UNCHANGED <<store, courseData, initialized, watching, inits, regs, purges,
                   mails, calls, notified>>

\* The rows are there: the loop over the catalog sends the mails and issues
\* the deletes, and the promise of scan k resolves.
ScanMatch(k) ==
    /\ scans[k].pc = "rows"
    /\ scans[k].rows # <<>>
    /\ LET matches == MatchDepartments(scans[k].data[1], Listeners(scans[k].rows[1]))
       IN /\ \E oks \in [1..Len(matches) -> BOOLEAN] :
                LET effects == MatchEffects(k, matches, oks)
                IN /\ mails' = effects.mails
                   /\ calls' = effects.calls
                   /\ scans' = [scans EXCEPT ![k].pc = "done", ![k].rows = <<>>,
                                             ![k].data = <<>>, ![k].after = {},
                                             ![k].dels = effects.dels]
          /\ notified' = notified \cup {matches[i].crn : i \in 1..Len(matches)}
    /\ inits' = SettleInits(k, TRUE)
    /\ regs' = SettleRegs(k, TRUE)
    /\ watching' = Watched(k, TRUE)
    /\ UNCHANGED <<store, courseData, initialized, purges>>

\* The database executes one of the deletes scan k issued.
DbDelete(k, i) ==
    /\ i \in DOMAIN scans[k].dels
    /\ store' = DeleteRow(store, scans[k].dels[i])
    /\ scans' = [scans EXCEPT ![k].dels =
                    SubSeq(@, 1, i - 1) \o SubSeq(@, i + 1, Len(@))]
    /\ UNCHANGED <<courseData, initialized, watching, inits, regs, purges, mails, calls,
                   notified>>

RegisterCall(crn, email) ==
    /\ Loaded
    /\ Calls < MaxCalls
    /\ LET reg == [crn |-> crn, email |-> email, pc |-> "scanning", scan |-> 0,
                   view |-> <<>>]
       IN IF courseData = <<>>
          THEN /\ scans' = StartScan("register")
               /\ regs' = Append(regs, [reg EXCEPT !.scan = Len(scans) + 1])
          ELSE /\ regs' = Append(regs, Lookup(reg, courseData))
               /\ UNCHANGED scans
    /\ UNCHANGED <<store, courseData, initialized, watching, inits, purges, mails, calls,
                   notified>>

\* The database executes the insert of register r, and register returns.
DbInsert(r) ==
    /\ regs[r].pc = "inserting"
    /\ store' = Upsert(store, regs[r].crn, regs[r].email)
    /\ regs' = [regs EXCEPT ![r].pc = "done"]
    /\ notified' = notified \ {regs[r].crn}
    /\ scans' = [k \in DOMAIN scans |->
                    [scans[k] EXCEPT !.after = @ \ {regs[r].crn}]]
    /\ UNCHANGED <<courseData, initialized, watching, inits, purges, mails, calls>>

\* purge: the update is built from the arguments alone and handed to the
\* database, which executes it; purge returns when it has.
Purge(email, crn) ==
    /\ Loaded
    /\ Calls < MaxCalls
    /\ store' = PurgeUpdate(store, email, crn)
    /\ purges' = Append(purges, [email |-> email, crn |-> crn,
                                 hit |-> store' # store])
    /\ UNCHANGED <<courseData, initialized, watching, inits, scans, regs, mails, calls,
                   notified>>

\* What goes on inside the scans that were started.
Scanning ==
    \/ \E k \in DOMAIN scans : FetchFail(k)
    \/ \E k \in DOMAIN scans, departments \in Catalogs : FetchData(k, departments)
    \/ \E k \in DOMAIN scans : DbSelect(k)
    \/ \E k \in DOMAIN scans : ScanMatch(k)
    \/ \E k \in DOMAIN scans : \E i \in DOMAIN scans[k].dels : DbDelete(k, i)

Registering ==
    \/ \E crn \in CRNs, email \in Emails : RegisterCall(crn, email)
    \/ \E r \in DOMAIN regs : DbInsert(r)

Purging == \E email \in Emails, crn \in CRNs \cup {Undefined} : Purge(email, crn)

Next ==
    \/ InitCall
    \/ CronTick
    \/ Scanning
    \/ Registering
    \/ Purging

\* Every operation of the watcher.
Spec == Init /\ [][Next]_vars

\* init and the scheduled scans alone.
NextScan ==
    \/ InitCall
    \/ CronTick
    \/ Scanning

SpecScan == Init /\ [][NextScan]_vars

\* init and register on a table that starts empty: one subscriber, and a
\* section that is in no catalog or one that is in both.
NextRegister ==
    \/ InitCall
    \/ Scanning
    \/ \E crn \in {0, 1}, email \in {"a"} : RegisterCall(crn, email)
    \/ \E r \in DOMAIN regs : DbInsert(r)

InitRegister == Init /\ store = TableEmpty

SpecRegister == InitRegister /\ [][NextRegister]_vars

\* init, the scheduled scans and purge, on a table that starts empty or
\* with the rows for CRN 0 and CRN 1.
NextPurge ==
    \/ InitCall
    \/ CronTick
    \/ Scanning
    \/ Purging

InitPurge == Init /\ store \in {TableEmpty, TableKept}

SpecPurge == InitPurge /\ [][NextPurge]_vars

\* init and register of two subscribers to section 1, on a table that
\* starts empty.
NextRace ==
    \/ InitCall
    \/ Scanning
    \/ \E email \in Emails : RegisterCall(1, email)
    \/ \E r \in DOMAIN regs : DbInsert(r)

SpecRace == InitRegister /\ [][NextRace]_vars

\* The watcher left to itself: the init() call of the module load and the
\* cron job, with a data source in which section 1 has a seat left from the
\* first tick on, and whose failures are followed by another tick.
Load == ~initialized /\ InitCall

LiveFetchFail(k) ==
    /\ scans[k].origin = "init" \/ Calls < MaxCalls
    /\ FetchFail(k)

LiveFetchData(k, departments) ==
    /\ scans[k].origin = "cron" => departments = CatalogB
    /\ FetchData(k, departments)

FetchAnswers ==
    \/ \E k \in DOMAIN scans : LiveFetchFail(k)
    \/ \E k \in DOMAIN scans, departments \in Catalogs : LiveFetchData(k, departments)
DbSelects == \E k \in DOMAIN scans : DbSelect(k)
ScanMatches == \E k \in DOMAIN scans : ScanMatch(k)
DbDeletes == \E k \in DOMAIN scans : \E i \in DOMAIN scans[k].dels : DbDelete(k, i)

NextLive ==
    \/ Load
    \/ CronTick
    \/ FetchAnswers
    \/ DbSelects
    \/ ScanMatches
    \/ DbDeletes

\* The timer fires, every request is answered, the database executes every
\* statement it is handed, and the event loop runs every continuation.
FairLive ==
    /\ WF_vars(Load)
    /\ WF_vars(CronTick)
    /\ WF_vars(FetchAnswers)
    /\ WF_vars(DbSelects)
    /\ WF_vars(ScanMatches)
    /\ WF_vars(DbDeletes)

\* The table holds the rows for CRN 0 and CRN 1.
InitLive == Init /\ store = TableKept

SpecLive == InitLive /\ [][NextLive]_vars /\ FairLive

\* ---------------------------------------------------------------- claims

\* The catalog as a set of section records, by position.
Positions(catalog) ==
    UNION { UNION { { <<d, c, i>> : i \in DOMAIN catalog[d].courses[c].sections }
                    : c \in DOMAIN catalog[d].courses }
            : d \in DOMAIN catalog }
SectionAt(catalog, p) == catalog[p[1]].courses[p[2]].sections[p[3]]
CrnsIn(catalog) == { SectionAt(catalog, p).crn : p \in Positions(catalog) }
RecordsOf(catalog, crn) ==
    { p \in Positions(catalog) : SectionAt(catalog, p).crn = crn }
OpenRecordsOf(catalog, crn) ==
    { p \in RecordsOf(catalog, crn) : SectionAt(catalog, p).rem > 0 }
NumMatches(catalog, rows) ==
    Cardinality({ p \in Positions(catalog) :
                    /\ HasRow(rows, SectionAt(catalog, p).crn)
                    /\ SectionAt(catalog, p).rem > 0 })

Count(emails, email) == Cardinality({ i \in DOMAIN emails : emails[i] = email })
Without(row, email) ==
    IF row = NoRow THEN NoRow
    ELSE LET Keep(x) == x # email IN Row(SelectSeq(row[1], Keep))

\* The step in which scan k runs its loop over the catalog.
Loops(k) == scans[k].pc = "rows" /\ scans'[k].pc = "done"
\* The step in which a purge is executed, and that purge.
Purged == Len(purges') = Len(purges) + 1
ThePurge == purges'[Len(purges')]

\* C1: one-shot notification.  In the loop of a scan that read a row for
\* section S: when S has no seat left, no mail is sent for S and no delete
\* is issued for it; when S has a seat left (S being one section of the
\* catalog), one mail is sent for S, to the emails of the row, and the row
\* is deleted.  A scan started after a scan that notified S had finished,
\* with no register for S since, finds no row for S and sends nothing.
C1_OneShot ==
    [][\A k \in DOMAIN scans : Loops(k) =>
         \A S \in CRNs :
           LET rows == scans[k].rows[1]
               recs == RecordsOf(scans[k].data[1], S)
               open == OpenRecordsOf(scans[k].data[1], S)
               sent == { i \in DOMAIN mails' : mails'[i].crn = S }
               dels == { i \in DOMAIN scans'[k].dels : scans'[k].dels[i] = S }
           IN /\ (HasRow(rows, S) /\ recs # {} /\ open = {})
                    => (sent = {} /\ dels = {})
              /\ (HasRow(rows, S) /\ Cardinality(recs) = 1 /\ open # {})
                    => /\ Cardinality(sent) = 1
                       /\ \A i \in sent : mails'[i].to = Join(EmailsOf(rows, S))
                       /\ dels # {}
              /\ (S \in scans[k].after /\ Cardinality(recs) = 1 /\ open # {})
                    => (~HasRow(rows, S) /\ sent = {})
      ]_vars

\* C2: idempotent registration.  When the insert of register(S, e) is
\* executed, row S holds e once afterwards, and a row that held e already is
\* left as it was.
C2_IdempotentRegistration ==
    [][\A r \in DOMAIN regs :
         (regs[r].pc = "inserting" /\ regs'[r].pc = "done") =>
           LET S == regs[r].crn
               e == regs[r].email
           IN /\ HasRow(store', S)
              /\ Count(EmailsOf(store', S), e) = 1
              /\ (HasRow(store, S) /\ Count(EmailsOf(store, S), e) > 0)
                    => store'[S] = store[S]
      ]_vars

\* C3: unknown section rejected.  A register call made while a catalog is
\* cached, for a CRN that no section of that catalog has, ends not-found in
\* the step of the call with the table as it was, and a call that ended
\* not-found does nothing more.
C3_UnknownSectionRejected ==
    [][\A r \in DOMAIN regs' :
         /\ (r \notin DOMAIN regs /\ courseData # <<>>
               /\ regs'[r].crn \notin CrnsIn(courseData[1]))
              => (regs'[r].pc = "notfound" /\ store' = store)
         /\ (r \in DOMAIN regs /\ regs[r].pc = "notfound")
              => (regs'[r] = regs[r])
      ]_vars

C3_Witness ==
    \E r \in DOMAIN regs :
        /\ regs[r].pc = "notfound"
        /\ regs[r].scan = 0
        /\ regs[r].view # <<>>
        /\ regs[r].crn \notin CrnsIn(regs[r].view[1])

\* C4: scoped purge.  purge(e, S) with S given, 0 included, takes e out of
\* row S and leaves every other row as it was.
C4_ScopedPurge ==
    [][(Purged /\ ThePurge.crn # Undefined) =>
         \A c \in CRNs :
            store'[c] = IF c = ThePurge.crn THEN Without(store[c], ThePurge.email)
                        ELSE store[c]
      ]_vars

\* C5: global purge.  purge(e) with no CRN takes e out of every row, keeps
\* the other emails of every row, and creates and deletes no row; it is
\* executed whether or not a row held e.
C5_GlobalPurge ==
    [][(Purged /\ ThePurge.crn = Undefined) =>
         \A c \in CRNs : store'[c] = Without(store[c], ThePurge.email)
      ]_vars

C5_Witness ==
    \E p \in DOMAIN purges :
        /\ purges[p].crn = Undefined
        /\ purges[p].hit
        /\ \A c \in CRNs : HasRow(store, c) => Count(EmailsOf(store, c), purges[p].email) = 0
        /\ \E c \in CRNs : HasRow(store, c) /\ EmailsOf(store, c) # <<>>

\* C6: snapshot atomicity.  The catalog a register call searched is one
\* catalog as the data source delivered it, and the outcome of the search
\* is the outcome on that catalog.
WholeCatalog(view) == \E catalog \in Catalogs : view = <<catalog>>

C6_SnapshotAtomicity ==
    \A r \in DOMAIN regs :
        regs[r].view # <<>> =>
            /\ WholeCatalog(regs[r].view)
            /\ (regs[r].pc = "notfound") <=> (regs[r].crn \notin CrnsIn(regs[r].view[1]))

\* A register call searched a catalog while the scan of init was between
\* its fetch and its loop, and the catalog it searched is another one than
\* the one that scan cached.
C6_Witness ==
    \E r \in DOMAIN regs, k \in DOMAIN scans :
        /\ regs[r].view # <<>>
        /\ regs[r].pc = "inserting"
        /\ scans[k].origin = "init"
        /\ scans[k].pc = "rows"
        /\ scans[k].data # regs[r].view

\* C7: init is idempotent.  Once init has been called there is one scan
\* started by init, whatever the number of init calls; no init call but the
\* first starts a scan; at most one cron job is scheduled.
C7_InitIdempotent ==
    /\ Cardinality({ k \in DOMAIN scans : scans[k].origin = "init" })
         = (IF Len(inits) > 0 THEN 1 ELSE 0)
    /\ \A i \in DOMAIN inits : i > 1 => (inits[i].scan = 0 /\ inits[i].pc = "done")
    /\ watching <= 1

C7_Witness == Len(inits) >= 2 /\ watching = 1

\* C8: the scheduler runs whatever the outcome of the scan of init.  Once
\* the init call that started the scan has gone on or has been rejected, a
\* cron job is scheduled.
C8_SchedulerStarts ==
    \A i \in DOMAIN inits :
        (inits[i].scan # 0 /\ inits[i].pc # "scanning") => watching > 0

\* C9: a fetch failure aborts the scan.  The step in which the fetch of
\* scan k fails leaves the cached catalog and the table as they were, sends
\* no mail and issues no delete, and rejects the callers awaiting the scan;
\* a failed scan does nothing more.
C9_FetchFailureAborts ==
    [][\A k \in DOMAIN scans :
         /\ (scans[k].pc = "fetching" /\ scans'[k].pc = "failed") =>
              /\ courseData' = courseData
              /\ store' = store
              /\ mails' = mails
              /\ scans'[k].dels = <<>>
              /\ watching' = watching
              /\ \A i \in DOMAIN inits :
                    (inits[i].pc = "scanning" /\ inits[i].scan = k)
                        => inits'[i].pc = "failed"
              /\ \A r \in DOMAIN regs :
                    (regs[r].pc = "scanning" /\ regs[r].scan = k)
                        => regs'[r].pc = "failed"
         /\ scans[k].pc = "failed" => scans'[k] = scans[k]
      ]_vars

C9_Witness ==
    \E k \in DOMAIN scans, r \in DOMAIN regs :
        /\ scans[k].pc = "failed"
        /\ regs[r].pc = "failed"
        /\ regs[r].scan = k
        /\ courseData # <<>>

\* C10: a failed send does not block retirement.  The loop of a scan ends
\* with the scan resolved, one mail sent for every matched section of the
\* catalog and one delete issued for every mail, whatever the outcomes of
\* the sends; and an issued delete, when the database executes it, leaves
\* no row for its section.
C10_SendFailureDoesNotBlock ==
    [][\A k \in DOMAIN scans :
         /\ (scans[k].pc = "rows" /\ scans'[k].pc # "rows") =>
               /\ scans'[k].pc = "done"
               /\ Len(mails') = NumMatches(scans[k].data[1], scans[k].rows[1])
               /\ scans'[k].dels = [i \in DOMAIN mails' |-> mails'[i].crn]
         /\ (scans[k].pc = "done" /\ Len(scans'[k].dels) < Len(scans[k].dels)) =>
               \E i \in DOMAIN scans[k].dels :
                   /\ ~HasRow(store', scans[k].dels[i])
                   /\ Len(scans'[k].dels) = Len(scans[k].dels) - 1
      ]_vars

\* The first of two sends failed, the second was made, and the row is gone.
C10_Witness ==
    /\ Len(mails) = 2
    /\ ~mails[1].ok
    /\ scans[mails[1].scan].pc = "done"
    /\ scans[mails[1].scan].dels = <<>>
    /\ ~HasRow(store, mails[1].crn)

\* The section records of the catalog that have a row and a seat left, and
\* the traversal order of the catalog: department, course, section.
MatchedPositions(catalog, rows) ==
    { p \in Positions(catalog) :
        HasRow(rows, SectionAt(catalog, p).crn) /\ SectionAt(catalog, p).rem > 0 }
Before(p, q) ==
    \/ p[1] < q[1]
    \/ p[1] = q[1] /\ p[2] < q[2]
    \/ p[1] = q[1] /\ p[2] = q[2] /\ p[3] < q[3]
\* The addresses of a recipient string, without the separators.
Recipients(to) == [j \in 1..((Len(to) + 1) \div 2) |-> to[2 * j - 1]]

\* C11: matching is exact.  The loop of a scan sends one mail for every
\* section record of the fetched catalog whose CRN has a row among the rows
\* the scan read and which has a seat left, in traversal order, and no
\* other mail; the recipients of the mail are the emails of the row, and
\* its subject and text carry the title of the course, the label of the
\* section, its remaining seats and its capacity.
C11_ExactMatching ==
    [][\A k \in DOMAIN scans : Loops(k) =>
         LET catalog == scans[k].data[1]
             rows == scans[k].rows[1]
             M == MatchedPositions(catalog, rows)
         IN /\ Len(mails') = Cardinality(M)
            /\ \A i \in DOMAIN mails' :
                 \E p \in M :
                    LET section == SectionAt(catalog, p)
                        course == catalog[p[1]].courses[p[2]]
                    IN /\ Cardinality({ q \in M : Before(q, p) }) = i - 1
                       /\ mails'[i].crn = section.crn
                       /\ Recipients(mails'[i].to) = EmailsOf(rows, section.crn)
                       /\ mails'[i].subject[2] = course.title
                       /\ mails'[i].subject[4] = section.sec
                       /\ mails'[i].text[1] = section.rem
                       /\ mails'[i].text[3] = section.cap
      ]_vars

\* A loop over the first catalog, with a row for CRN 2 only, has sent one
\* mail, for section 02 of DS, to the two emails of the row.
C11_Witness ==
    /\ Len(mails) = 1
    /\ mails[1].crn = 2
    /\ mails[1].to = <<"a", ", ", "b">>
    /\ mails[1].subject[2] = "DS"
    /\ mails[1].text = <<1, "/", 2, " seats available">>

IsSend(call) == call[1] = "sendMail"
IsDelete(call) == call[1] = "delete"

\* C12: notify, then retire.  In the loop of a scan every delete is issued
\* right after the sendMail call for the same section; the loop makes the
\* two calls for every match whatever the outcomes of the sends of the
\* other matches; and the database executes a delete only for a scan whose
\* loop has ended, so after the sendMail call for its section.
C12_NotifyThenRetire ==
    [][\A k \in DOMAIN scans :
         /\ Loops(k) =>
              /\ \A j \in DOMAIN calls' :
                    IsDelete(calls'[j]) =>
                        (j > 1 /\ calls'[j - 1] = <<"sendMail", calls'[j][2]>>)
              /\ Len(calls') = 2 * NumMatches(scans[k].data[1], scans[k].rows[1])
              /\ [i \in DOMAIN mails' |-> mails'[i].crn]
                    = [i \in DOMAIN mails' |-> SelectSeq(calls', IsSend)[i][2]]
              /\ scans'[k].dels
                    = [i \in DOMAIN mails' |-> SelectSeq(calls', IsDelete)[i][2]]
         /\ (Len(scans'[k].dels) > Len(scans[k].dels)) => Loops(k)
         /\ (Len(scans'[k].dels) < Len(scans[k].dels)) => scans[k].pc = "done"
      ]_vars

\* Of two matches the second send failed: the first mail was sent and the
\* row it was sent for is deleted.
C12_Witness ==
    /\ Len(mails) = 2
    /\ mails[1].ok
    /\ ~mails[2].ok
    /\ calls = <<<<"sendMail", 2>>, <<"delete", 2>>, <<"sendMail", 2>>, <<"delete", 2>>>>
    /\ ~HasRow(store, 2)

\* C13: purge never deletes a row.  A purge leaves a row wherever there was
\* one, with no email when it removed the last; a step in which a row
\* disappears is the execution of a delete that a scan issued.
C13_PurgeKeepsRows ==
    [][/\ Purged =>
            \A c \in CRNs :
               /\ HasRow(store', c) <=> HasRow(store, c)
               /\ (HasRow(store, c) /\ Without(store[c], ThePurge.email) = Row(<<>>)
                    /\ store'[c] # store[c])
                      => store'[c] = Row(<<>>)
       /\ (\E c \in CRNs : HasRow(store, c) /\ ~HasRow(store', c)) =>
            \E k \in DOMAIN scans :
               /\ scans[k].pc = "done"
               /\ Len(scans'[k].dels) = Len(scans[k].dels) - 1
      ]_vars

\* purge(e, 1) has removed the last email of row 1, and the row is there.
C13_Witness ==
    /\ purges # <<>>
    /\ purges[Len(purges)].crn = 1
    /\ purges[Len(purges)].hit
    /\ store[1] = Row(<<>>)

\* C14: scans are serialized.  At most one scan is between its start and
\* its completion.
C14_ScansSerialized ==
    Cardinality({ k \in DOMAIN scans : InFlight(k) }) <= 1

\* C15: at most one notification for a row in a scan.  The loop of a scan
\* sends at most one mail for a CRN, whatever the catalog fetched.
C15_OneMailPerRow ==
    [][\A k \in DOMAIN scans : Loops(k) =>
         \A S \in CRNs :
            Cardinality({ i \in DOMAIN mails' : mails'[i].crn = S }) <= 1
      ]_vars

\* C16: a register call that ends not-found has changed nothing.  When the
\* scan that a register call started, having no catalog cached, ends and
\* the call ends not-found, the loop of that scan has sent no mail and has
\* issued no delete.
C16_NotFoundMutatesNothing ==
    [][\A k \in DOMAIN scans, r \in DOMAIN regs :
         (/\ Loops(k)
          /\ scans[k].origin = "register"
          /\ regs[r].pc = "scanning" /\ regs[r].scan = k
          /\ regs'[r].pc = "notfound")
            => (mails' = <<>> /\ scans'[k].dels = <<>>)
      ]_vars

\* Scan k has fetched its catalog.
Fetched(k) == scans[k].pc \in {"rows", "done"}

\* C17: the cached catalog is the most recent one.  When the fetch of scan
\* k ends and a scan started after k has fetched already, the cached
\* catalog stays the one it was.
C17_CacheIsMostRecent ==
    [][\A k \in DOMAIN scans :
         (/\ scans[k].pc = "fetching" /\ scans'[k].pc = "rows"
          /\ \E j \in DOMAIN scans : j > k /\ Fetched(j))
            => courseData' = courseData
      ]_vars

\* C18: eventual notification.  With the cron job scheduled and a tick
\* still to come, a row for section 1 that holds an email leads to a mail
\* for section 1 and to the row being deleted: a scan whose fetch fails
\* leaves the row to the scan of a later tick.
C18_EventualNotification ==
    (/\ watching > 0
     /\ Calls < MaxCalls
     /\ HasRow(store, 1) /\ EmailsOf(store, 1) # <<>>)
        ~> (1 \in notified /\ ~HasRow(store, 1))

\* The fetch of a scheduled scan failed, the scan of a later tick has sent
\* the mail for section 1, and the row is deleted.
C18_Witness ==
    \E k \in DOMAIN scans :
        /\ scans[k].origin = "cron"
        /\ scans[k].pc = "failed"
        /\ mails # <<>>
        /\ mails[1].crn = 1
        /\ mails[1].scan > k
        /\ 1 \in notified
        /\ ~HasRow(store, 1)

\* The emails of a row as a set.
EmailSet(row) == { row[1][i] : i \in DOMAIN row[1] }

\* C19: no subscription is retired without being notified.  When the
\* database executes the delete a scan issued for section S, every email
\* of row S is a recipient of the mail that scan sent for S.
C19_NoSilentRetirement ==
    [][\A k \in DOMAIN scans :
         (/\ Len(scans'[k].dels) < Len(scans[k].dels)
          /\ mails # <<>> /\ mails[1].scan = k)
            => \A S \in CRNs :
                 (HasRow(store, S) /\ ~HasRow(store', S)) =>
                    \A e \in EmailSet(store[S]) :
                       \E i \in DOMAIN mails :
                          /\ mails[i].crn = S
                          /\ e \in EmailSet(Row(Recipients(mails[i].to)))
      ]_vars

\* C20: every notification has a recipient.  No mail a scan has sent has an
\* empty recipient string.
C20_MailHasRecipient ==
    \A i \in DOMAIN mails : mails[i].to # <<>>

====
